---- MODULE Spec2Model ----
(***************************************************************************)
(* A model of the two FHI-aims band-structure utilities:                   *)
(*   aims_kpoints_grid.py    band-file parser, HOMO/LUMO extraction, log   *)
(*                           readers and grid writer;                      *)
(*   kpoints_gui_weighted.py band-line generator and its GUI submit        *)
(*                           handler.                                      *)
(*                                                                         *)
(* Floating-point coordinates are held in fixed point: one unit is 1e-9,   *)
(* so the tolerances 1e-8 and 1e-6 of the source are 10 and 1000 units.    *)
(* Occupations are held in tenths, so the threshold 0.5 is 5.              *)
(* An optional value is a sequence: None is <<>> and a value v is <<v>>.    *)
(***************************************************************************)
EXTENDS Integers, Sequences, FiniteSets, TLC

VARIABLES
    \* ---- remove_duplicate_lines, applied to an arbitrary list ----
    x_positions,          \* the input list
    tolerance,            \* the tolerance argument
    unique_once,          \* the result of one application
    unique_twice,         \* the result of applying it to its own output
    dedup_pc,
    \* ---- generate_band_lines and submit ----
    center_point,         \* "G", "K" or "M"
    sparse_x_range,       \* <<sparse_x_min, sparse_x_max>>
    sparse_density,
    cone_x_range,         \* <<cone_x_min, cone_x_max>>
    cone_density,
    sparse_x_positions,
    cone_x_positions,
    all_x_positions,
    unique_x_positions,
    lines,                \* the directives: [x, label_start, label_end]
    center_line_idx,      \* optional, 0-based
    header_center,        \* optional: the header's "Center line at index" figure
    duplicates_removed,   \* optional: the figure of the success dialog
    gen_pc,
    \* ---- parse_single_band_file, applied to an arbitrary file ----
    file_lines,           \* the lines of the file, each a sequence of fields
    line_no,              \* lines consumed so far
    p_kpoints,            \* the three lists being built
    p_eigenvalues,
    p_occupations,
    parse_pc,
    \* ---- main, parse_band_files and the log readers ----
    entry,                \* the function called: "main", "parse_band_files"
                          \* or "read_vbm_cbm_from_output"
    cwd,                  \* the file names of the working directory
    band_rows,            \* the lines every band*.out file of cwd holds
    log_lines,            \* the lines every log file of cwd holds
    output_file,          \* the log file name argument
    soc,                  \* the soc argument / detect_soc()'s answer
    band_files,
    kpoints,              \* what parse_band_files returned
    eigenvalues,
    occupations,
    homo_idx,
    lumo_idx,
    grid_files,           \* file name -> the data save_grid_file was given
    opened,               \* optional: the log file a reader opened
    in_soc_section,
    line_idx,             \* log lines scanned so far
    fermi_energy,         \* optional; a value is the number of its line
    vbm,                  \* optional, likewise
    cbm,                  \* optional, likewise
    raised,               \* optional: the function an exception escaped from
    pc

dedupVars == <<x_positions, tolerance, unique_once, unique_twice, dedup_pc>>

lineVars == <<center_point, sparse_x_range, sparse_density, cone_x_range,
              cone_density, sparse_x_positions, cone_x_positions,
              all_x_positions, unique_x_positions, lines, center_line_idx,
              header_center, duplicates_removed, gen_pc>>

parseVars == <<file_lines, line_no, p_kpoints, p_eigenvalues, p_occupations,
               parse_pc>>

aimsVars == <<entry, cwd, band_rows, log_lines, output_file, soc, band_files,
              kpoints, eigenvalues, occupations, homo_idx, lumo_idx,
              grid_files, opened, in_soc_section, line_idx, fermi_energy,
              vbm, cbm, raised, pc>>

vars == <<dedupVars, lineVars, parseVars, aimsVars>>

None == <<>>
Some(v) == <<v>>

----------------------------------------------------------------------------
\* Bounds of the model.

\* Longest list handed to remove_duplicate_lines on its own.
MaxLen == 3
\* Largest value in such a list (values are 0..MaxVal).
MaxVal == 3
\* Largest tolerance tried on such a list (tolerances are -1..MaxTol).
MaxTol == 2
\* Largest sparse_density / cone_density entered in the form.
MaxDensity == 3
\* Most lines in a band file parsed on its own.
MaxLines == 3
\* Most fields on such a line.
MaxFields == 7
\* Most k-points and most bands in the band files main reads.
MaxK == 2
MaxB == 2
\* Most lines in the logs the readers scan.
MaxLogLen == 3

----------------------------------------------------------------------------
\* Program constants, in units of 1e-9.

\* tolerance=1e-8, the default of remove_duplicate_lines.
DefaultTolerance == 10
\* 1e-6: the snap threshold of the dense grid.
SnapThreshold == 1000
\* 1e-6: the threshold of the distinguished labels.
LabelThreshold == 1000

\* centers[...] x coordinates: G = 0.0, K = 1/3, M = 0.5.
centers == [G |-> 0, K |-> 333333333, M |-> 500000000]

----------------------------------------------------------------------------
\* Helpers.

Abs(v) == IF v < 0 THEN -v ELSE v

\* A slip: the retained values are returned in input order, unsorted.
np_unsorted(s) == s

\* np.sort: ascending, by insertion.
RECURSIVE InsertSorted(_, _)
InsertSorted(s, v) ==
    IF s = <<>> THEN <<v>>
    ELSE IF v < Head(s) THEN <<v>> \o s
    ELSE <<Head(s)>> \o InsertSorted(Tail(s), v)

RECURSIVE np_sort(_)
np_sort(s) ==
    IF s = <<>> THEN <<>>
    ELSE InsertSorted(np_sort(SubSeq(s, 1, Len(s) - 1)), s[Len(s)])

\* A slip: x is compared with the last retained value only.
is_duplicate_last_only(x, unique_positions, tol) ==
    /\ unique_positions # <<>>
    /\ Abs(x - unique_positions[Len(unique_positions)]) < tol

\* The inner loop of remove_duplicate_lines: is x within the tolerance of a
\* retained value?
is_duplicate(x, unique_positions, tol) ==
    \E k \in 1..Len(unique_positions) : Abs(x - unique_positions[k]) < tol

\* The outer loop of remove_duplicate_lines, over xs[i..], with the values
\* retained so far.
RECURSIVE unique_loop(_, _, _, _)
unique_loop(xs, i, unique_positions, tol) ==
    IF i > Len(xs) THEN unique_positions
    ELSE unique_loop(xs, i + 1,
                     IF is_duplicate(xs[i], unique_positions, tol)
                     THEN unique_positions
                     ELSE Append(unique_positions, xs[i]),
                     tol)

remove_duplicate_lines(xs, tol) == np_sort(unique_loop(xs, 1, <<>>, tol))

\* np.linspace(lo, hi, n): n evenly spaced samples, both ends included.
np_linspace(lo, hi, n) ==
    IF n = 1 THEN <<lo>>
    ELSE [i \in 1..n |-> lo + ((i - 1) * (hi - lo)) \div (n - 1)]

\* np.abs(cone_x_positions - cx)
distances(xs, cx) == [i \in 1..Len(xs) |-> Abs(xs[i] - cx)]

\* np.argmin: the first index of the least value (1-based here).
np_argmin(d) ==
    CHOOSE i \in 1..Len(d) :
        /\ \A j \in 1..Len(d) : d[i] <= d[j]
        /\ \A j \in 1..(i - 1) : d[j] > d[i]

\* A slip: the center is added to the dense grid, not put in the place of
\* its nearest point.
snap_center_insert(xs, cx) ==
    LET d == distances(xs, cx)
        closest_idx == np_argmin(d)
    IN  IF d[closest_idx] > SnapThreshold
        THEN Append(xs, cx)
        ELSE xs

\* The snap: the dense point nearest the center is replaced by the center
\* when it is further than 1e-6 from it.
snap_center(xs, cx) ==
    LET d == distances(xs, cx)
        closest_idx == np_argmin(d)
    IN  IF d[closest_idx] > SnapThreshold
        THEN [xs EXCEPT ![closest_idx] = cx]
        ELSE xs

\* One iteration of the labelling loop: the directive of x at 0-based
\* position i, with its labels as the strings the file holds.
band_line(cp, i, x, cx) ==
    IF Abs(x - cx) < LabelThreshold
    THEN [x |-> x, label_start |-> cp \o "*", label_end |-> "A*"]
    ELSE [x |-> x, label_start |-> cp \o ToString(i + 1),
                   label_end |-> "A" \o ToString(i + 1)]

\* center_line_idx after the labelling loop: the last position that took
\* the distinguished labels.
RECURSIVE center_idx_loop(_, _, _, _)
center_idx_loop(xs, i, cx, idx) ==
    IF i > Len(xs) THEN idx
    ELSE center_idx_loop(xs, i + 1, cx,
                         IF Abs(xs[i] - cx) < LabelThreshold
                         THEN Some(i - 1) ELSE idx)

----------------------------------------------------------------------------
\* remove_duplicate_lines on its own.

RECURSIVE SeqsUpTo(_, _)
SeqsUpTo(S, n) ==
    IF n = 0 THEN {<<>>}
    ELSE LET shorter == SeqsUpTo(S, n - 1)
         IN  shorter \cup {Append(s, v) : s \in shorter, v \in S}

IdleDedup ==
    /\ x_positions = <<>>
    /\ tolerance = DefaultTolerance
    /\ unique_once = <<>>
    /\ unique_twice = <<>>
    /\ dedup_pc = "idle"

IdleLines ==
    /\ center_point = "G"
    /\ sparse_x_range = <<0, 0>>
    /\ sparse_density = 0
    /\ cone_x_range = <<0, 0>>
    /\ cone_density = 0
    /\ sparse_x_positions = <<>>
    /\ cone_x_positions = <<>>
    /\ all_x_positions = <<>>
    /\ unique_x_positions = <<>>
    /\ lines = <<>>
    /\ center_line_idx = None
    /\ header_center = None
    /\ duplicates_removed = None
    /\ gen_pc = "idle"

IdleParse ==
    /\ file_lines = <<>>
    /\ line_no = 0
    /\ p_kpoints = <<>>
    /\ p_eigenvalues = <<>>
    /\ p_occupations = <<>>
    /\ parse_pc = "idle"

IdleAims ==
    /\ entry = "none"
    /\ cwd = {}
    /\ band_rows = <<>>
    /\ log_lines = <<>>
    /\ output_file = <<>>
    /\ soc = FALSE
    /\ band_files = <<>>
    /\ kpoints = <<>>
    /\ eigenvalues = <<>>
    /\ occupations = <<>>
    /\ homo_idx = -1
    /\ lumo_idx = -1
    /\ grid_files = <<>>
    /\ opened = None
    /\ in_soc_section = FALSE
    /\ line_idx = 0
    /\ fermi_energy = None
    /\ vbm = None
    /\ cbm = None
    /\ raised = None
    /\ pc = "idle"

InitDedup ==
    /\ x_positions \in SeqsUpTo(0..MaxVal, MaxLen)
    /\ tolerance \in -1..MaxTol
    /\ unique_once = <<>>
    /\ unique_twice = <<>>
    /\ dedup_pc = "call"
    /\ IdleLines
    /\ IdleParse
    /\ IdleAims

ApplyOnce ==
    /\ dedup_pc = "call"
    /\ unique_once' = remove_duplicate_lines(x_positions, tolerance)
    /\ dedup_pc' = "again"
    /\ UNCHANGED <<x_positions, tolerance, unique_twice, lineVars, parseVars,
                   aimsVars>>

ApplyTwice ==
    /\ dedup_pc = "again"
    /\ unique_twice' = remove_duplicate_lines(unique_once, tolerance)
    /\ dedup_pc' = "done"
    /\ UNCHANGED <<x_positions, tolerance, unique_once, lineVars, parseVars,
                   aimsVars>>

NextDedup == ApplyOnce \/ ApplyTwice

SpecDedup == InitDedup /\ [][NextDedup]_vars

----------------------------------------------------------------------------
\* submit and generate_band_lines.

\* The form's entries: range ends as offsets from the center's x, chosen so
\* that a grid point can fall at the center, within 1e-8 of it, within 1e-6
\* of it, exactly 1e-6 from it, and further away.
SparseOffsets == {-2000, 0, 5, 500, 2000}
ConeOffsets == {-3000, -7, 7, 100, 1000, 3000}

InitLines ==
    /\ \/ /\ center_point \in DOMAIN centers
          /\ \E a, b \in SparseOffsets :
                sparse_x_range = <<centers[center_point] + a,
                                   centers[center_point] + b>>
          /\ \E a, b \in ConeOffsets :
                cone_x_range = <<centers[center_point] + a,
                                 centers[center_point] + b>>
          /\ sparse_density \in 0..MaxDensity
          /\ cone_density \in 0..MaxDensity
       \/ /\ center_point = "X"
          /\ sparse_x_range = <<-2000, 2000>>
          /\ cone_x_range = <<-3000, 3000>>
          /\ sparse_density = MaxDensity
          /\ cone_density = MaxDensity
    /\ sparse_x_positions = <<>>
    /\ cone_x_positions = <<>>
    /\ all_x_positions = <<>>
    /\ unique_x_positions = <<>>
    /\ lines = <<>>
    /\ center_line_idx = None
    /\ header_center = None
    /\ duplicates_removed = None
    /\ gen_pc = "submit"
    /\ IdleDedup
    /\ IdleParse
    /\ IdleAims

cx == centers[center_point]

\* submit: the save dialog is cancelled and submit returns.
CancelSave ==
    /\ gen_pc = "submit"
    /\ gen_pc' = "cancelled"
    /\ UNCHANGED <<center_point, sparse_x_range, sparse_density, cone_x_range,
                   cone_density, sparse_x_positions, cone_x_positions,
                   all_x_positions, unique_x_positions, lines,
                   center_line_idx, header_center, duplicates_removed,
                   dedupVars, parseVars, aimsVars>>

\* generate_band_lines: the center is not one of G, K, M; ValueError, which
\* submit turns into the error dialog.
UnknownCenter ==
    /\ gen_pc = "submit"
    /\ center_point \notin DOMAIN centers
    /\ gen_pc' = "error"
    /\ UNCHANGED <<center_point, sparse_x_range, sparse_density, cone_x_range,
                   cone_density, sparse_x_positions, cone_x_positions,
                   all_x_positions, unique_x_positions, lines,
                   center_line_idx, header_center, duplicates_removed,
                   dedupVars, parseVars, aimsVars>>

\* generate_band_lines: the two grids.
GenerateGrids ==
    /\ gen_pc = "submit"
    /\ center_point \in DOMAIN centers
    /\ sparse_x_positions' =
           np_linspace(sparse_x_range[1], sparse_x_range[2], sparse_density)
    /\ cone_x_positions' =
           np_linspace(cone_x_range[1], cone_x_range[2], cone_density)
    /\ gen_pc' = "snap"
    /\ UNCHANGED <<center_point, sparse_x_range, sparse_density, cone_x_range,
                   cone_density, all_x_positions, unique_x_positions, lines,
                   center_line_idx, header_center, duplicates_removed,
                   dedupVars, parseVars, aimsVars>>

\* np.argmin of an empty dense grid raises ValueError; the error dialog.
SnapRaises ==
    /\ gen_pc = "snap"
    /\ cone_x_positions = <<>>
    /\ gen_pc' = "error"
    /\ UNCHANGED <<center_point, sparse_x_range, sparse_density, cone_x_range,
                   cone_density, sparse_x_positions, cone_x_positions,
                   all_x_positions, unique_x_positions, lines,
                   center_line_idx, header_center, duplicates_removed,
                   dedupVars, parseVars, aimsVars>>

SnapCenter ==
    /\ gen_pc = "snap"
    /\ cone_x_positions # <<>>
    /\ cone_x_positions' = snap_center(cone_x_positions, cx)
    /\ gen_pc' = "combine"
    /\ UNCHANGED <<center_point, sparse_x_range, sparse_density, cone_x_range,
                   cone_density, sparse_x_positions, all_x_positions,
                   unique_x_positions, lines, center_line_idx, header_center,
                   duplicates_removed, dedupVars, parseVars, aimsVars>>

\* np.concatenate, then remove_duplicate_lines with its default tolerance.
CombineAndDedup ==
    /\ gen_pc = "combine"
    /\ all_x_positions' = sparse_x_positions \o cone_x_positions
    /\ unique_x_positions' =
           remove_duplicate_lines(all_x_positions', DefaultTolerance)
    /\ gen_pc' = "label"
    /\ UNCHANGED <<center_point, sparse_x_range, sparse_density, cone_x_range,
                   cone_density, sparse_x_positions, cone_x_positions, lines,
                   center_line_idx, header_center, duplicates_removed,
                   dedupVars, parseVars, aimsVars>>

\* The labelling loop.
LabelLines ==
    /\ gen_pc = "label"
    /\ lines' = [i \in 1..Len(unique_x_positions) |->
                    band_line(center_point, i - 1, unique_x_positions[i], cx)]
    /\ center_line_idx' = center_idx_loop(unique_x_positions, 1, cx, None)
    /\ gen_pc' = "write"
    /\ UNCHANGED <<center_point, sparse_x_range, sparse_density, cone_x_range,
                   cone_density, sparse_x_positions, cone_x_positions,
                   all_x_positions, unique_x_positions, header_center,
                   duplicates_removed, dedupVars, parseVars, aimsVars>>

\* The header: the center-line index is written 1-based, when there is one.
WriteFile ==
    /\ gen_pc = "write"
    /\ header_center' = IF center_line_idx # None
                        THEN Some(center_line_idx[1] + 1)
                        ELSE None
    /\ gen_pc' = "stats"
    /\ UNCHANGED <<center_point, sparse_x_range, sparse_density, cone_x_range,
                   cone_density, sparse_x_positions, cone_x_positions,
                   all_x_positions, unique_x_positions, lines,
                   center_line_idx, duplicates_removed, dedupVars, parseVars, aimsVars>>

\* submit: the success dialog.
ShowStats ==
    /\ gen_pc = "stats"
    /\ duplicates_removed' = Some(sparse_density + cone_density - Len(lines))
    /\ gen_pc' = "done"
    /\ UNCHANGED <<center_point, sparse_x_range, sparse_density, cone_x_range,
                   cone_density, sparse_x_positions, cone_x_positions,
                   all_x_positions, unique_x_positions, lines,
                   center_line_idx, header_center, dedupVars, parseVars, aimsVars>>

NextLines ==
    \/ CancelSave
    \/ UnknownCenter
    \/ GenerateGrids
    \/ SnapRaises
    \/ SnapCenter
    \/ CombineAndDedup
    \/ LabelLines
    \/ WriteFile
    \/ ShowStats

SpecLines == InitLines /\ [][NextLines]_vars

----------------------------------------------------------------------------
\* aims_kpoints_grid.py: file names and glob.

\* A file name is the sequence of its characters.
N_band == <<"b", "a", "n", "d">>
N_dot_out == <<".", "o", "u", "t">>
N_dot_no_soc == <<".", "n", "o", "_", "s", "o", "c">>
N_no_soc == <<"n", "o", "_", "s", "o", "c">>
N_band1 == N_band \o <<"1">> \o N_dot_out
N_band2 == N_band \o <<"2">> \o N_dot_out
N_band1_no_soc == N_band1 \o N_dot_no_soc
N_band2_no_soc == N_band2 \o N_dot_no_soc
N_aims == <<"a", "i", "m", "s">> \o N_dot_out
N_run == <<"r", "u", "n">> \o N_dot_out

Names == {N_band1, N_band2, N_band1_no_soc, N_band2_no_soc, N_aims, N_run}

\* The character codes that order the names under sorted().
Ord == ("." :> 46) @@ ("1" :> 49) @@ ("2" :> 50) @@ ("_" :> 95) @@
       ("a" :> 97) @@ ("b" :> 98) @@ ("c" :> 99) @@ ("d" :> 100) @@
       ("i" :> 105) @@ ("m" :> 109) @@ ("n" :> 110) @@ ("o" :> 111) @@
       ("r" :> 114) @@ ("s" :> 115) @@ ("t" :> 116) @@ ("u" :> 117)

RECURSIVE LexLess(_, _)
LexLess(a, b) ==
    IF b = <<>> THEN FALSE
    ELSE IF a = <<>> THEN TRUE
    ELSE IF Ord[Head(a)] # Ord[Head(b)] THEN Ord[Head(a)] < Ord[Head(b)]
    ELSE LexLess(Tail(a), Tail(b))

\* sorted(): the names of S in ascending order.
RECURSIVE sorted(_)
sorted(S) ==
    IF S = {} THEN <<>>
    ELSE LET least == CHOOSE f \in S : \A g \in S \ {f} : LexLess(f, g)
         IN  <<least>> \o sorted(S \ {least})

StartsWith(f, prefix) ==
    /\ Len(f) >= Len(prefix)
    /\ SubSeq(f, 1, Len(prefix)) = prefix

endswith(f, suffix) ==
    /\ Len(f) >= Len(suffix)
    /\ SubSeq(f, Len(f) - Len(suffix) + 1, Len(f)) = suffix

\* Python's "sub in f".
Contains(f, sub) ==
    \E i \in 1..(Len(f) - Len(sub) + 1) : SubSeq(f, i, i + Len(sub) - 1) = sub

\* A slip: the pattern "band*", which also takes the .no_soc variants.
glob_band_any(directory) == {f \in directory : StartsWith(f, N_band)}

\* glob.glob(f"{directory}/band*.out")
glob_band_out(directory) ==
    {f \in directory : /\ StartsWith(f, N_band)
                       /\ endswith(f, N_dot_out)
                       /\ Len(f) >= Len(N_band) + Len(N_dot_out)}

\* glob.glob(f"{directory}/band*.out.no_soc")
glob_band_out_no_soc(directory) ==
    {f \in directory :
        /\ StartsWith(f, N_band)
        /\ endswith(f, N_dot_out \o N_dot_no_soc)
        /\ Len(f) >= Len(N_band) + Len(N_dot_out) + Len(N_dot_no_soc)}

\* glob.glob("*.out"): hidden files are not matched.
glob_out(directory) ==
    {f \in directory : endswith(f, N_dot_out) /\ Head(f) # "."}

detect_soc(directory) == Cardinality(glob_band_out_no_soc(directory)) > 0

\* The list comprehension [f for f in band_files if not f.endswith(...)].
RECURSIVE without_suffix(_, _)
without_suffix(files, suffix) ==
    IF files = <<>> THEN <<>>
    ELSE IF endswith(Head(files), suffix)
         THEN without_suffix(Tail(files), suffix)
         ELSE <<Head(files)>> \o without_suffix(Tail(files), suffix)

\* parse_band_files: the band files it selects.
select_band_files(directory, soc_flag) ==
    IF soc_flag
    THEN without_suffix(sorted(glob_band_out(directory)), N_dot_no_soc)
    ELSE sorted(glob_band_out(directory))

----------------------------------------------------------------------------
\* parse_single_band_file.

\* A slip: three fields are taken to be enough.
has_min_fields_three(parts) == Len(parts) >= 3

\* The guard "if len(parts) < 4: continue", negated.
has_min_fields(parts) == Len(parts) >= 4

\* The loop over band_data, with i the 0-based column of the source.
RECURSIVE pair_loop(_, _, _, _)
pair_loop(band_data, i, occs, eigs) ==
    IF i >= Len(band_data) THEN [occs |-> occs, eigs |-> eigs]
    ELSE IF i + 1 < Len(band_data)
         THEN pair_loop(band_data, i + 2, Append(occs, band_data[i + 1]),
                        Append(eigs, band_data[i + 2]))
         ELSE pair_loop(band_data, i + 2, occs, eigs)

\* One iteration of the loop over the lines.  acc holds the three lists and
\* exc, the exception the iteration ended with ("" for none): parts[3] of a
\* line of fewer than 4 fields is an IndexError.
parse_line(acc, parts) ==
    IF ~has_min_fields(parts) THEN acc
    ELSE IF Len(parts) < 4 THEN [acc EXCEPT !.exc = "IndexError"]
    ELSE LET pairs == pair_loop(SubSeq(parts, 5, Len(parts)), 0, <<>>, <<>>)
         IN  [kpoints |-> Append(acc.kpoints,
                                 <<parts[2], parts[3], parts[4]>>),
              eigenvalues |-> Append(acc.eigenvalues, pairs.eigs),
              occupations |-> Append(acc.occupations, pairs.occs),
              exc |-> ""]

RECURSIVE parse_loop(_, _, _)
parse_loop(file, i, acc) ==
    IF i > Len(file) \/ acc.exc # "" THEN acc
    ELSE parse_loop(file, i + 1, parse_line(acc, file[i]))

EmptyLists == [kpoints |-> <<>>, eigenvalues |-> <<>>, occupations |-> <<>>,
               exc |-> ""]

parse_single_band_file(file) == parse_loop(file, 1, EmptyLists)

\* The text of line l with n fields: field p holds the number 100*l + p.
NumericLine(l, n) == [q \in 1..n |-> 100 * l + q]

InitParse ==
    /\ \E n \in 0..MaxLines :
          \E counts \in [1..n -> 0..MaxFields] :
              file_lines = [l \in 1..n |-> NumericLine(l, counts[l])]
    /\ line_no = 0
    /\ p_kpoints = <<>>
    /\ p_eigenvalues = <<>>
    /\ p_occupations = <<>>
    /\ parse_pc = "loop"
    /\ IdleDedup
    /\ IdleLines
    /\ IdleAims

\* One line of the file is consumed.
ParseLine ==
    /\ parse_pc = "loop"
    /\ line_no < Len(file_lines)
    /\ LET acc == parse_line([kpoints |-> p_kpoints,
                              eigenvalues |-> p_eigenvalues,
                              occupations |-> p_occupations, exc |-> ""],
                             file_lines[line_no + 1])
       IN  /\ p_kpoints' = acc.kpoints
           /\ p_eigenvalues' = acc.eigenvalues
           /\ p_occupations' = acc.occupations
           /\ parse_pc' = IF acc.exc # "" THEN "raised" ELSE "loop"
    /\ line_no' = line_no + 1
    /\ UNCHANGED <<file_lines, dedupVars, lineVars, aimsVars>>

\* The lists are returned.
ParseReturn ==
    /\ parse_pc = "loop"
    /\ line_no = Len(file_lines)
    /\ parse_pc' = "done"
    /\ UNCHANGED <<file_lines, line_no, p_kpoints, p_eigenvalues,
                   p_occupations, dedupVars, lineVars, aimsVars>>

NextParse == ParseLine \/ ParseReturn

SpecParse == InitParse /\ [][NextParse]_vars

----------------------------------------------------------------------------
\* find_homo_lumo_indices.  An occupation is held in tenths.

\* The threshold 0.5.
OccThreshold == 5

\* A slip: an occupation of exactly 0.5 counts as occupied.
occupied_at_least(v) == v >= OccThreshold

\* occupations[:, i] > 0.5, for one entry.
occupied(v) == v > OccThreshold

\* occupations[:, i] < 0.5, for one entry.
unoccupied(v) == v < OccThreshold

\* The HOMO loop, from band i (0-based) downwards.
RECURSIVE homo_loop(_, _)
homo_loop(occ, i) ==
    IF i < 0 THEN -1
    ELSE IF \E k \in 1..Len(occ) : occupied(occ[k][i + 1]) THEN i
    ELSE homo_loop(occ, i - 1)

\* The LUMO loop, from band i (0-based) upwards.
RECURSIVE lumo_loop(_, _, _)
lumo_loop(occ, i, n_bands) ==
    IF i >= n_bands THEN -1
    ELSE IF \A k \in 1..Len(occ) : unoccupied(occ[k][i + 1]) THEN i
    ELSE lumo_loop(occ, i + 1, n_bands)

\* occ has at least one row (the shape of an empty array does not unpack).
find_homo_lumo_indices(occ) ==
    LET n_bands == Len(occ[1])
    IN  [homo_idx |-> homo_loop(occ, n_bands - 1),
         lumo_idx |-> lumo_loop(occ, 0, n_bands)]

----------------------------------------------------------------------------
\* The log readers.  A log line is what the readers can see of it: the
\* marker substrings it holds and what its number converts to:
\*   "ok"        the pattern matches and float() accepts the text;
\*   "nomatch"   the pattern finds nothing, and the second-to-last token is
\*               no number;
\*   "badfloat"  the pattern matches a text float() rejects (its exponent
\*               class [E,e] takes a comma), and the second-to-last token
\*               is no number.
\* The number of an "ok" line is its line number in the log.

LogLine(s, f, m, v, c, num) ==
    [soc_marker |-> s, fermi |-> f, md |-> m, vbm |-> v, cbm |-> c,
     num |-> num]

L_soc == LogLine(TRUE, FALSE, FALSE, FALSE, FALSE, "nomatch")
L_fermi == LogLine(FALSE, TRUE, FALSE, FALSE, FALSE, "ok")
L_fermi_nonum == LogLine(FALSE, TRUE, FALSE, FALSE, FALSE, "nomatch")
L_fermi_bad == LogLine(FALSE, TRUE, FALSE, FALSE, FALSE, "badfloat")
L_md == LogLine(FALSE, FALSE, TRUE, FALSE, FALSE, "ok")
L_vbm == LogLine(FALSE, FALSE, FALSE, TRUE, FALSE, "ok")
L_vbm_bad == LogLine(FALSE, FALSE, FALSE, TRUE, FALSE, "nomatch")
L_cbm == LogLine(FALSE, FALSE, FALSE, FALSE, TRUE, "ok")
L_soc_fermi == LogLine(TRUE, TRUE, FALSE, FALSE, FALSE, "ok")

LineKinds == {L_soc, L_fermi, L_fermi_nonum, L_fermi_bad, L_md, L_vbm,
              L_vbm_bad, L_cbm, L_soc_fermi}

\* A slip: the flag follows the current line only, so it is reset by the
\* line after the marker.
soc_flag_of_line(flag, line) == line.soc_marker

\* in_soc_section after the marker test at the head of the loop body.
soc_flag(flag, line) == flag \/ line.soc_marker

\* The two branches of the loop body: SOC requested and inside the section,
\* or not requested and outside it.
section_filter(soc_flag_req, in_soc) ==
    (soc_flag_req /\ in_soc) \/ (~soc_flag_req /\ ~in_soc)

\* One iteration of read_fermi_energy's loop, on line n.  st holds
\* in_soc_section, fermi_energy, whether the loop broke, and the exception
\* raised ("" for none).
fermi_line(st, line, n, soc_flag_req) ==
    LET in_soc == soc_flag(st.in_soc_section, line)
        seen == [st EXCEPT !.in_soc_section = in_soc]
        match == line.num # "nomatch"
        taken == IF line.num = "ok"
                 THEN [seen EXCEPT !.fermi_energy = Some(n)]
                 ELSE [seen EXCEPT !.exc = "ValueError"]
    IN  IF soc_flag_req /\ in_soc
        THEN IF line.fermi /\ match THEN taken ELSE seen
        ELSE IF ~soc_flag_req /\ ~in_soc
        THEN IF line.fermi
             THEN IF match THEN [taken EXCEPT !.broke = TRUE] ELSE seen
             ELSE IF line.md /\ match
                  THEN [taken EXCEPT !.broke = TRUE]
                  ELSE seen
        ELSE seen

\* One iteration of read_vbm_cbm_from_output's loop, on line n:
\* float(line.split()[-2]) raises ValueError on a token that is no number.
vbm_cbm_line(st, line, n, soc_flag_req) ==
    LET in_soc == soc_flag(st.in_soc_section, line)
        seen == [st EXCEPT !.in_soc_section = in_soc]
        v == IF ~line.vbm THEN seen
             ELSE IF line.num = "ok" THEN [seen EXCEPT !.vbm = Some(n)]
             ELSE [seen EXCEPT !.exc = "ValueError"]
        c == IF v.exc # "" \/ ~line.cbm THEN v
             ELSE IF line.num = "ok" THEN [v EXCEPT !.cbm = Some(n)]
             ELSE [v EXCEPT !.exc = "ValueError"]
    IN  IF section_filter(soc_flag_req, in_soc) THEN c ELSE seen

\* A slip: "except OSError" in place of "except Exception".
fermi_handles_oserror(exc) == exc \in {"FileNotFoundError"}

\* read_fermi_energy's "except Exception".
fermi_handles(exc) == exc \in {"ValueError", "IndexError", "FileNotFoundError"}

\* read_vbm_cbm_from_output's bare "except".
vbm_handles(exc) == TRUE

\* read_fermi_energy's fallback: the "*.out" files that are neither band
\* files nor no_soc files.
fallback_files(directory) ==
    {f \in glob_out(directory) : ~Contains(f, N_band) /\ ~Contains(f, N_no_soc)}

----------------------------------------------------------------------------
\* main.

\* A slip: "or" in place of "and".
either_determined(h, l) == h >= 0 \/ l >= 0

\* The guard "if homo_idx >= 0 and lumo_idx >= 0".
both_determined(h, l) == h >= 0 /\ l >= 0

\* eigenvalues[:, idx]: a negative index counts from the last column.
column(m, idx) ==
    LET n_bands == Len(m[1])
        col == IF idx < 0 THEN n_bands + idx + 1 ELSE idx + 1
    IN  [k \in 1..Len(m) |-> m[k][col]]

\* The line of a band file for k-point k with the occupations occs:
\* index, kx, ky, kz, then (occupation, eigenvalue) per band; the
\* eigenvalue of band b (0-based) at k-point k is 100*b + k.
BandRow(k, occs) ==
    <<k, 10 * k + 1, 10 * k + 2, 0>> \o
    [q \in 1..(2 * Len(occs)) |->
        IF q % 2 = 1 THEN occs[(q + 1) \div 2]
        ELSE 100 * ((q \div 2) - 1) + k]

OccValues == {0, OccThreshold, 10}

\* Every band file of up to MaxK k-points and MaxB bands.
AllBandRows ==
    UNION {UNION {{[k \in 1..nk |-> BandRow(k, occ[k])] :
                      occ \in [1..nk -> [1..nb -> OccValues]]} :
                  nb \in 0..MaxB} :
           nk \in 0..MaxK}

\* parse_band_files: the loop over the band files, every one of which holds
\* the lines rows.
RECURSIVE parse_files(_, _, _, _)
parse_files(files, i, rows, acc) ==
    IF i > Len(files) \/ acc.exc # "" THEN acc
    ELSE LET one == parse_single_band_file(rows)
         IN  parse_files(files, i + 1, rows,
                 [kpoints |-> acc.kpoints \o one.kpoints,
                  eigenvalues |-> acc.eigenvalues \o one.eigenvalues,
                  occupations |-> acc.occupations \o one.occupations,
                  exc |-> one.exc])

aimsInputs == <<entry, cwd, band_rows, log_lines, output_file>>

\* main: soc = detect_soc()
DetectSoc ==
    /\ pc = "detect_soc"
    /\ soc' = detect_soc(cwd)
    /\ pc' = "parse_band_files"
    /\ UNCHANGED <<aimsInputs, band_files, kpoints, eigenvalues, occupations,
                   homo_idx, lumo_idx, grid_files, opened, in_soc_section,
                   line_idx, fermi_energy, vbm, cbm, raised,
                   dedupVars, lineVars, parseVars>>

\* parse_band_files: no band file is selected; ValueError.
ParseNoFiles ==
    /\ pc = "parse_band_files"
    /\ select_band_files(cwd, soc) = <<>>
    /\ band_files' = <<>>
    /\ raised' = Some("parse_band_files")
    /\ pc' = "raised"
    /\ UNCHANGED <<aimsInputs, soc, kpoints, eigenvalues, occupations,
                   homo_idx, lumo_idx, grid_files, opened, in_soc_section,
                   line_idx, fermi_energy, vbm, cbm,
                   dedupVars, lineVars, parseVars>>

\* parse_band_files: the selected files are parsed and concatenated.
ParseBandFiles ==
    /\ pc = "parse_band_files"
    /\ select_band_files(cwd, soc) # <<>>
    /\ band_files' = select_band_files(cwd, soc)
    /\ LET all == parse_files(band_files', 1, band_rows, EmptyLists)
       IN  /\ kpoints' = all.kpoints
           /\ eigenvalues' = all.eigenvalues
           /\ occupations' = all.occupations
           /\ raised' = IF all.exc # "" THEN Some("parse_single_band_file")
                        ELSE None
           /\ pc' = IF all.exc # "" THEN "raised"
                    ELSE IF entry = "main" THEN "save_k" ELSE "returned"
    /\ UNCHANGED <<aimsInputs, soc, homo_idx, lumo_idx, grid_files, opened,
                   in_soc_section, line_idx, fermi_energy, vbm, cbm,
                   dedupVars, lineVars, parseVars>>

\* main: kpoints[:, 0] of an empty array is an IndexError.
KGridRaises ==
    /\ pc = "save_k"
    /\ kpoints = <<>>
    /\ raised' = Some("main")
    /\ pc' = "raised"
    /\ UNCHANGED <<aimsInputs, soc, band_files, kpoints, eigenvalues,
                   occupations, homo_idx, lumo_idx, grid_files, opened,
                   in_soc_section, line_idx, fermi_energy, vbm, cbm,
                   dedupVars, lineVars, parseVars>>

\* main: KX.grd and KY.grd are saved.
SaveKGrids ==
    /\ pc = "save_k"
    /\ kpoints # <<>>
    /\ grid_files' = ("KX.grd" :> [k \in 1..Len(kpoints) |-> kpoints[k][1]])
                  @@ ("KY.grd" :> [k \in 1..Len(kpoints) |-> kpoints[k][2]])
    /\ pc' = "find_homo_lumo"
    /\ UNCHANGED <<aimsInputs, soc, band_files, kpoints, eigenvalues,
                   occupations, homo_idx, lumo_idx, opened, in_soc_section,
                   line_idx, fermi_energy, vbm, cbm, raised,
                   dedupVars, lineVars, parseVars>>

\* main: homo_idx, lumo_idx = find_homo_lumo_indices(occupations)
FindHomoLumo ==
    /\ pc = "find_homo_lumo"
    /\ LET found == find_homo_lumo_indices(occupations)
       IN  /\ homo_idx' = found.homo_idx
           /\ lumo_idx' = found.lumo_idx
    /\ pc' = "branch"
    /\ UNCHANGED <<aimsInputs, soc, band_files, kpoints, eigenvalues,
                   occupations, grid_files, opened, in_soc_section, line_idx,
                   fermi_energy, vbm, cbm, raised,
                   dedupVars, lineVars, parseVars>>

\* main: the else branch, "Could not determine HOMO/LUMO bands".
Undetermined ==
    /\ pc = "branch"
    /\ ~both_determined(homo_idx, lumo_idx)
    /\ pc' = "done"
    /\ UNCHANGED <<aimsInputs, soc, band_files, kpoints, eigenvalues,
                   occupations, homo_idx, lumo_idx, grid_files, opened,
                   in_soc_section, line_idx, fermi_energy, vbm, cbm, raised,
                   dedupVars, lineVars, parseVars>>

\* main calls read_fermi_energy, which finds no log file to open and
\* returns None.
FermiNoFile ==
    /\ pc = "branch"
    /\ both_determined(homo_idx, lumo_idx)
    /\ output_file \notin cwd
    /\ fallback_files(cwd) = {}
    /\ fermi_energy' = None
    /\ pc' = "save_bands"
    /\ UNCHANGED <<aimsInputs, soc, band_files, kpoints, eigenvalues,
                   occupations, homo_idx, lumo_idx, grid_files, opened,
                   in_soc_section, line_idx, vbm, cbm, raised,
                   dedupVars, lineVars, parseVars>>

\* main calls read_fermi_energy, which opens the named log, or else the
\* first fallback file glob lists, and reads its lines.
FermiOpen ==
    /\ pc = "branch"
    /\ both_determined(homo_idx, lumo_idx)
    /\ \/ output_file \in cwd /\ opened' = Some(output_file)
       \/ /\ output_file \notin cwd
          /\ \E f \in fallback_files(cwd) : opened' = Some(f)
    /\ fermi_energy' = None
    /\ in_soc_section' = FALSE
    /\ line_idx' = 0
    /\ pc' = IF log_lines = <<>> THEN "save_bands" ELSE "fermi_scan"
    /\ UNCHANGED <<aimsInputs, soc, band_files, kpoints, eigenvalues,
                   occupations, homo_idx, lumo_idx, grid_files, vbm, cbm,
                   raised, dedupVars, lineVars, parseVars>>

\* read_fermi_energy: one line of the log; the loop ends after the last
\* line and at a break, and an exception ends it in the handler, which
\* returns None.
FermiScanLine ==
    /\ pc = "fermi_scan"
    /\ line_idx < Len(log_lines)
    /\ LET st == fermi_line([in_soc_section |-> in_soc_section,
                             fermi_energy |-> fermi_energy,
                             broke |-> FALSE, exc |-> ""],
                            log_lines[line_idx + 1], line_idx + 1, soc)
       IN  /\ in_soc_section' = st.in_soc_section
           /\ line_idx' = line_idx + 1
           /\ IF st.exc # ""
              THEN IF fermi_handles(st.exc)
                   THEN /\ fermi_energy' = None
                        /\ raised' = raised
                        /\ pc' = "save_bands"
                   ELSE /\ fermi_energy' = fermi_energy
                        /\ raised' = Some("read_fermi_energy")
                        /\ pc' = "raised"
              ELSE /\ fermi_energy' = st.fermi_energy
                   /\ raised' = raised
                   /\ pc' = IF st.broke \/ line_idx' = Len(log_lines)
                            THEN "save_bands" ELSE "fermi_scan"
    /\ UNCHANGED <<aimsInputs, soc, band_files, kpoints, eigenvalues,
                   occupations, homo_idx, lumo_idx, grid_files, opened, vbm,
                   cbm, dedupVars, lineVars, parseVars>>

\* main: BAND_HOMO.grd and BAND_LUMO.grd are saved, whatever
\* read_fermi_energy returned.
SaveBands ==
    /\ pc = "save_bands"
    /\ grid_files' = grid_files
                  @@ ("BAND_HOMO.grd" :> column(eigenvalues, homo_idx))
                  @@ ("BAND_LUMO.grd" :> column(eigenvalues, lumo_idx))
    /\ pc' = "done"
    /\ UNCHANGED <<aimsInputs, soc, band_files, kpoints, eigenvalues,
                   occupations, homo_idx, lumo_idx, opened, in_soc_section,
                   line_idx, fermi_energy, vbm, cbm, raised,
                   dedupVars, lineVars, parseVars>>

\* read_vbm_cbm_from_output: open() of a missing file raises inside the
\* try; the handler returns (None, None).
VbmOpenFails ==
    /\ pc = "vbm_open"
    /\ output_file \notin cwd
    /\ IF vbm_handles("FileNotFoundError")
       THEN raised' = raised /\ pc' = "returned"
       ELSE raised' = Some("read_vbm_cbm_from_output") /\ pc' = "raised"
    /\ UNCHANGED <<aimsInputs, soc, band_files, kpoints, eigenvalues,
                   occupations, homo_idx, lumo_idx, grid_files, opened,
                   in_soc_section, line_idx, fermi_energy, vbm, cbm,
                   dedupVars, lineVars, parseVars>>

VbmOpen ==
    /\ pc = "vbm_open"
    /\ output_file \in cwd
    /\ opened' = Some(output_file)
    /\ in_soc_section' = FALSE
    /\ line_idx' = 0
    /\ pc' = IF log_lines = <<>> THEN "returned" ELSE "vbm_scan"
    /\ UNCHANGED <<aimsInputs, soc, band_files, kpoints, eigenvalues,
                   occupations, homo_idx, lumo_idx, grid_files, fermi_energy,
                   vbm, cbm, raised, dedupVars, lineVars, parseVars>>

\* read_vbm_cbm_from_output: one line of the log.
VbmScanLine ==
    /\ pc = "vbm_scan"
    /\ line_idx < Len(log_lines)
    /\ LET st == vbm_cbm_line([in_soc_section |-> in_soc_section,
                               vbm |-> vbm, cbm |-> cbm, exc |-> ""],
                              log_lines[line_idx + 1], line_idx + 1, soc)
       IN  /\ in_soc_section' = st.in_soc_section
           /\ line_idx' = line_idx + 1
           /\ IF st.exc # ""
              THEN IF vbm_handles(st.exc)
                   THEN /\ vbm' = None
                        /\ cbm' = None
                        /\ raised' = raised
                        /\ pc' = "returned"
                   ELSE /\ vbm' = vbm
                        /\ cbm' = cbm
                        /\ raised' = Some("read_vbm_cbm_from_output")
                        /\ pc' = "raised"
              ELSE /\ vbm' = st.vbm
                   /\ cbm' = st.cbm
                   /\ raised' = raised
                   /\ pc' = IF line_idx' = Len(log_lines)
                            THEN "returned" ELSE "vbm_scan"
    /\ UNCHANGED <<aimsInputs, soc, band_files, kpoints, eigenvalues,
                   occupations, homo_idx, lumo_idx, grid_files, opened,
                   fermi_energy, dedupVars, lineVars, parseVars>>

AimsStart ==
    /\ band_files = <<>>
    /\ kpoints = <<>>
    /\ eigenvalues = <<>>
    /\ occupations = <<>>
    /\ homo_idx = -1
    /\ lumo_idx = -1
    /\ grid_files = <<>>
    /\ opened = None
    /\ in_soc_section = FALSE
    /\ line_idx = 0
    /\ fermi_energy = None
    /\ vbm = None
    /\ cbm = None
    /\ raised = None
    /\ IdleDedup
    /\ IdleLines
    /\ IdleParse

\* main on every band file of the bounds, in a few directories.
MainDirs == {{}, {N_band1}, {N_band1, N_band2, N_aims},
             {N_band1, N_band1_no_soc, N_aims}}
MainLogs == {<<L_fermi>>, <<L_soc, L_fermi>>}

InitMain ==
    /\ entry = "main"
    /\ cwd \in MainDirs
    /\ band_rows \in AllBandRows
    /\ log_lines \in MainLogs
    /\ output_file = N_aims
    /\ soc = FALSE
    /\ pc = "detect_soc"
    /\ AimsStart

NextMain ==
    \/ DetectSoc
    \/ ParseNoFiles
    \/ ParseBandFiles
    \/ KGridRaises
    \/ SaveKGrids
    \/ FindHomoLumo
    \/ Undetermined
    \/ FermiNoFile
    \/ FermiOpen
    \/ FermiScanLine
    \/ SaveBands

SpecMain == InitMain /\ [][NextMain]_vars

\* A band file whose HOMO is band 0 and whose LUMO is band 1.
FilledRows == <<BandRow(1, <<10, 0>>)>>

\* parse_band_files on every directory of the names, with either flag.
InitFiles ==
    /\ entry = "parse_band_files"
    /\ cwd \in SUBSET Names
    /\ band_rows = FilledRows
    /\ log_lines = <<>>
    /\ output_file = N_aims
    /\ soc \in BOOLEAN
    /\ pc = "parse_band_files"
    /\ AimsStart

NextFiles == ParseNoFiles \/ ParseBandFiles

SpecFiles == InitFiles /\ [][NextFiles]_vars

\* The readers on every log of up to MaxLogLen lines: read_fermi_energy as
\* main calls it, and read_vbm_cbm_from_output with either flag.
LogDirs == {{N_band1, N_aims}, {N_band1, N_run}, {N_band1},
            {N_band1, N_band1_no_soc, N_aims}}

InitLog ==
    /\ \/ /\ entry = "main"
          /\ soc = FALSE
          /\ pc = "detect_soc"
          /\ \/ /\ cwd \in LogDirs
                /\ band_rows = FilledRows
                /\ log_lines \in SeqsUpTo(LineKinds, MaxLogLen)
             \/ /\ cwd = {N_band1}
                /\ band_rows \in {<<>>, <<BandRow(1, <<OccThreshold>>)>>}
                /\ log_lines = <<>>
             \/ /\ cwd = {N_aims}
                /\ band_rows = FilledRows
                /\ log_lines = <<>>
       \/ /\ entry = "read_vbm_cbm_from_output"
          /\ soc \in BOOLEAN
          /\ pc = "vbm_open"
          /\ cwd \in {{N_aims}, {N_run}}
          /\ band_rows = <<>>
          /\ log_lines \in SeqsUpTo(LineKinds, MaxLogLen)
    /\ output_file = N_aims
    /\ AimsStart

NextLog ==
    \/ NextMain
    \/ VbmOpenFails
    \/ VbmOpen
    \/ VbmScanLine

SpecLog == InitLog /\ [][NextLog]_vars

----------------------------------------------------------------------------
\* Properties of remove_duplicate_lines (SpecDedup).

\* C4: remove_duplicate_lines is idempotent: applied to its own output it
\* returns that output unchanged, for every input list and tolerance; and
\* applied to an empty list it returns an empty sequence.
C4_Idempotent ==
    /\ dedup_pc = "done" => unique_twice = unique_once
    /\ (dedup_pc \in {"again", "done"} /\ x_positions = <<>>)
           => unique_once = <<>>

\* A run where the first application both dropped a duplicate and reordered
\* what it kept, and the second application has been made.
C4_Witness ==
    /\ dedup_pc = "done"
    /\ tolerance > 0
    /\ Len(unique_once) >= 2
    /\ Len(unique_once) < Len(x_positions)
    /\ unique_once # SubSeq(x_positions, 1, Len(unique_once))

\* remove_duplicate_lines has returned its first result.
Deduped == dedup_pc \in {"again", "done"}

\* The values of a list.
Values(xs) == {xs[i] : i \in DOMAIN xs}

\* The parts of C11 that stand: the output is sorted ascending, every output
\* value is an input value, any two output entries differ by at least the
\* tolerance, and, for a positive tolerance, every input value lies within
\* the tolerance of some output value.
C11_Common ==
    /\ \A i, j \in DOMAIN unique_once :
          i < j => unique_once[i] <= unique_once[j]
    /\ Values(unique_once) \subseteq Values(x_positions)
    /\ \A i, j \in DOMAIN unique_once :
          i # j => Abs(unique_once[i] - unique_once[j]) >= tolerance
    /\ tolerance > 0
          => \A i \in DOMAIN x_positions :
                \E k \in DOMAIN unique_once :
                    Abs(x_positions[i] - unique_once[k]) < tolerance

\* C11, as stated: the output is sorted, drawn from the input, spread by at
\* least the tolerance and covers the input; and of inputs within the
\* tolerance of each other the one retained is the first in input order, so
\* a value that occurs once in the input, after another input within the
\* tolerance of it, is not in the output.
C11_FirstOfNearInputsKept ==
    Deduped
        => /\ C11_Common
           /\ \A i, j \in DOMAIN x_positions :
                 (/\ i < j
                  /\ Abs(x_positions[i] - x_positions[j]) < tolerance
                  /\ \A l \in DOMAIN x_positions :
                        x_positions[l] = x_positions[j] => l = j)
                    => x_positions[j] \notin Values(unique_once)

\* C11, amended: the output is sorted, drawn from the input, spread by at
\* least the tolerance and, for a positive tolerance, covers the input; the
\* first input is always retained, with a tolerance of 0 or less nothing is
\* removed, and an input value is missing from the output only when an
\* earlier input that was retained lies within the tolerance of it.
C11_DroppedForEarlierKept ==
    Deduped
        => /\ C11_Common
           /\ x_positions # <<>> => x_positions[1] \in Values(unique_once)
           /\ tolerance <= 0 => Len(unique_once) = Len(x_positions)
           /\ \A i \in DOMAIN x_positions :
                 x_positions[i] \notin Values(unique_once)
                    => \E j \in 1..(i - 1) :
                          /\ x_positions[j] \in Values(unique_once)
                          /\ Abs(x_positions[i] - x_positions[j]) < tolerance

\* A result where an input was dropped for the first input and the input
\* after it, within the tolerance of the dropped one, was retained.
C11_Witness ==
    /\ Deduped
    /\ tolerance > 0
    /\ Len(x_positions) = 3
    /\ Len(unique_once) = 2
    /\ x_positions[2] \notin Values(unique_once)
    /\ x_positions[3] \in Values(unique_once)
    /\ x_positions[3] # x_positions[1]
    /\ Abs(x_positions[2] - x_positions[3]) < tolerance

----------------------------------------------------------------------------
\* Properties of generate_band_lines and submit (SpecLines).

Generated == gen_pc \in {"label", "write", "stats", "done"}

\* The positions of the output that hold exactly the value v.
ExactAt(xs, v) == {i \in DOMAIN xs : xs[i] = v}

\* C5: with a dense count of at least 1, the x-positions generate_band_lines
\* returns hold exactly one value exactly equal to the center's x: the snap
\* puts it in the dense grid and it survives concatenation and
\* deduplication.
C5_ExactlyOneCenter ==
    (Generated /\ cone_density >= 1)
        => Cardinality(ExactAt(unique_x_positions, cx)) = 1

\* No two values of xs lie within the default tolerance of each other.
Spread(xs) ==
    \A i, j \in DOMAIN xs :
        i < j => ~(Abs(xs[i] - xs[j]) < DefaultTolerance)

\* The number of values of xs within the default tolerance of a value of ys.
NearCount(xs, ys) ==
    Cardinality({i \in DOMAIN xs :
                    \E j \in DOMAIN ys :
                        Abs(xs[i] - ys[j]) < DefaultTolerance})

\* C6, as stated: with both grids spread out, the number of lines is
\* sparse_density + cone_density minus the number of SPARSE points within
\* 1e-8 of a dense point, and "Duplicates removed" is that number and is
\* never negative.
C6_SparseNearDense ==
    (gen_pc = "done" /\ Spread(sparse_x_positions) /\ Spread(cone_x_positions))
        => /\ Len(lines) = sparse_density + cone_density
                             - NearCount(sparse_x_positions, cone_x_positions)
           /\ duplicates_removed =
                  Some(NearCount(sparse_x_positions, cone_x_positions))
           /\ duplicates_removed[1] >= 0

\* C6, amended: the number subtracted is the number of DENSE points (after
\* the snap) within 1e-8 of a sparse point; "Duplicates removed" is that
\* number, and it is never negative whatever the grids.
C6_DenseNearSparse ==
    /\ (gen_pc = "done" /\ Spread(sparse_x_positions)
                        /\ Spread(cone_x_positions))
        => /\ Len(lines) = sparse_density + cone_density
                             - NearCount(cone_x_positions, sparse_x_positions)
           /\ duplicates_removed =
                  Some(NearCount(cone_x_positions, sparse_x_positions))
    /\ gen_pc = "done" => duplicates_removed[1] >= 0

\* A finished run with both grids spread out, at least two sparse and two
\* dense points, and a dense point that fell on a sparse one.
C6_Witness ==
    /\ gen_pc = "done"
    /\ Spread(sparse_x_positions)
    /\ Spread(cone_x_positions)
    /\ sparse_density >= 2
    /\ cone_density >= 2
    /\ NearCount(cone_x_positions, sparse_x_positions) >= 1
    /\ duplicates_removed[1] >= 1

\* The positions of the lines that carry the distinguished labels.
Starred == {i \in DOMAIN lines :
               /\ lines[i].label_start = center_point \o "*"
               /\ lines[i].label_end = "A*"}

\* C9: with a dense count of at least 1, exactly one line carries the
\* distinguished labels; it is the line whose x is within 1e-6 of the
\* center; every other line at 0-based position i carries the labels
\* numbered i+1; and the header's center-line index is the 1-based position
\* of that one starred line.
C9_OneStarredLine ==
    (gen_pc = "done" /\ cone_density >= 1)
        => /\ Cardinality(Starred) = 1
           /\ \A i \in DOMAIN lines :
                 IF i \in Starred
                 THEN /\ Abs(lines[i].x - cx) < LabelThreshold
                      /\ header_center = Some(i)
                 ELSE /\ lines[i].label_start = center_point \o ToString(i)
                      /\ lines[i].label_end = "A" \o ToString(i)

----------------------------------------------------------------------------
\* Properties of parse_single_band_file (SpecParse).

\* The consumed lines that have at least 4 fields.
Qualifying == {l \in 1..line_no : Len(file_lines[l]) >= 4}

\* The j-th of them, in file order.
NthQualifying(j) ==
    CHOOSE l \in Qualifying : Cardinality({q \in Qualifying : q <= l}) = j

\* C3: parse_single_band_file never raises on numeric lines; its three
\* lists have equal length, with one entry per line of at least 4 fields,
\* in file order (a shorter line adds nothing); the entry of a line of n
\* fields holds floor((n-4)/2) occupation/eigenvalue pairs, taken pairwise
\* from the columns after the fourth, a trailing unpaired column dropped.
C3_ParsedLists ==
    /\ parse_pc # "raised"
    /\ Len(p_kpoints) = Cardinality(Qualifying)
    /\ Len(p_eigenvalues) = Len(p_kpoints)
    /\ Len(p_occupations) = Len(p_kpoints)
    /\ \A j \in 1..Len(p_kpoints) :
          LET parts == file_lines[NthQualifying(j)]
              n_pairs == (Len(parts) - 4) \div 2
          IN  /\ p_kpoints[j] = <<parts[2], parts[3], parts[4]>>
              /\ Len(p_occupations[j]) = n_pairs
              /\ Len(p_eigenvalues[j]) = n_pairs
              /\ \A m \in 1..n_pairs :
                    /\ p_occupations[j][m] = parts[4 + 2 * m - 1]
                    /\ p_eigenvalues[j][m] = parts[4 + 2 * m]

\* A finished parse of a file with a short line between two long ones, one
\* of which ends in an unpaired column.
C3_Witness ==
    /\ parse_pc = "done"
    /\ Len(p_kpoints) = 2
    /\ Len(file_lines) = 3
    /\ Len(file_lines[2]) \in 1..3
    /\ Len(file_lines[3]) = 7
    /\ Len(p_occupations[2]) = 1

----------------------------------------------------------------------------
\* Properties of find_homo_lumo_indices and main (SpecMain).

\* main is past find_homo_lumo_indices.
Found == entry = "main" /\ pc \in {"branch", "fermi_scan", "save_bands", "done"}

\* The 0-based bands with an occupation above 0.5 at some k-point.
BandsAboveHalf ==
    {b \in 0..(Len(occupations[1]) - 1) :
        \E k \in 1..Len(occupations) : occupations[k][b + 1] > 5}

\* The 0-based bands with an occupation below 0.5 at every k-point.
BandsBelowHalf ==
    {b \in 0..(Len(occupations[1]) - 1) :
        \A k \in 1..Len(occupations) : occupations[k][b + 1] < 5}

\* C1: for an occupation matrix of at least one k-point and one band, the
\* HOMO index is the highest band with an occupation above 0.5 at some
\* k-point and the LUMO index the lowest band with occupations below 0.5 at
\* every k-point; each is -1 exactly when no band satisfies its condition.
C1_HomoLumo ==
    (Found /\ Len(occupations) >= 1 /\ Len(occupations[1]) >= 1)
        => /\ homo_idx = -1 <=> BandsAboveHalf = {}
           /\ homo_idx # -1 =>
                 /\ homo_idx \in BandsAboveHalf
                 /\ \A b \in BandsAboveHalf : b <= homo_idx
           /\ lumo_idx = -1 <=> BandsBelowHalf = {}
           /\ lumo_idx # -1 =>
                 /\ lumo_idx \in BandsBelowHalf
                 /\ \A b \in BandsBelowHalf : lumo_idx <= b

\* Both indices found on a matrix of two k-points that holds an occupation
\* of exactly 0.5, with the LUMO below the HOMO.
C1_Witness ==
    /\ Found
    /\ Len(occupations) >= 2
    /\ \E k \in 1..Len(occupations) :
          \E b \in 1..Len(occupations[1]) : occupations[k][b] = 5
    /\ lumo_idx >= 0
    /\ homo_idx > lumo_idx

Written(name) == name \in DOMAIN grid_files

\* C10: BAND_HOMO.grd and BAND_LUMO.grd are written only when both indices
\* are >= 0, each from the eigenvalue column of its index, and neither is
\* written otherwise; KX.grd and KY.grd are written before the detection
\* and exist in both outcomes.
C10_BandFilesGuarded ==
    /\ (Written("BAND_HOMO.grd") \/ Written("BAND_LUMO.grd"))
          => /\ homo_idx >= 0 /\ homo_idx < Len(eigenvalues[1])
             /\ lumo_idx >= 0 /\ lumo_idx < Len(eigenvalues[1])
             /\ grid_files["BAND_HOMO.grd"] =
                    [k \in 1..Len(eigenvalues) |->
                        eigenvalues[k][homo_idx + 1]]
             /\ grid_files["BAND_LUMO.grd"] =
                    [k \in 1..Len(eigenvalues) |->
                        eigenvalues[k][lumo_idx + 1]]
    /\ (pc = "done" /\ (homo_idx < 0 \/ lumo_idx < 0))
          => ~Written("BAND_HOMO.grd") /\ ~Written("BAND_LUMO.grd")
    /\ (pc = "done" /\ homo_idx >= 0 /\ lumo_idx >= 0)
          => Written("BAND_HOMO.grd") /\ Written("BAND_LUMO.grd")
    /\ (pc \in {"find_homo_lumo", "branch", "fermi_scan", "save_bands",
                "done"})
          => Written("KX.grd") /\ Written("KY.grd")

\* main finished with only the HOMO determined: the k grids exist and the
\* band grids do not.
C10_Witness ==
    /\ pc = "done"
    /\ homo_idx >= 0
    /\ lumo_idx = -1
    /\ Written("KX.grd")
    /\ Written("KY.grd")
    /\ ~Written("BAND_HOMO.grd")

----------------------------------------------------------------------------
\* Properties of parse_band_files (SpecFiles).

Range(f) == {f[i] : i \in DOMAIN f}

Called == pc \in {"returned", "raised"}

\* C2, as stated: in a directory that holds band files and their .no_soc
\* variants, the variants are left out when soc is true and taken when soc
\* is false.
C2_VariantsFollowFlag ==
    (pc = "returned" /\ N_band1 \in cwd /\ N_band1_no_soc \in cwd)
        => /\ soc => N_band1_no_soc \notin Range(band_files)
           /\ ~soc => N_band1_no_soc \in Range(band_files)

\* C2, amended: with either flag the files selected are the names of the
\* directory that match 'band*.out', in sorted order, which never include a
\* .no_soc variant; parse_band_files raises exactly when there are none.
C2_SameSelection ==
    Called
        => /\ Range(band_files) = cwd \cap {N_band1, N_band2}
           /\ Len(band_files) = Cardinality(cwd \cap {N_band1, N_band2})
           /\ Len(band_files) = 2 => band_files = <<N_band1, N_band2>>
           /\ pc = "raised" <=> cwd \cap {N_band1, N_band2} = {}
           /\ pc = "raised" => raised = Some("parse_band_files")

\* parse_band_files returned with soc false from a directory holding both
\* band files and both .no_soc variants.
C2_Witness ==
    /\ pc = "returned"
    /\ ~soc
    /\ {N_band1, N_band2, N_band1_no_soc, N_band2_no_soc} \subseteq cwd
    /\ Len(band_files) = 2

----------------------------------------------------------------------------
\* Properties of the log readers (SpecLog).

\* A line among the first n holds the SOC start marker.
MarkerBy(n) == \E j \in 1..n : log_lines[j].soc_marker

\* Line n is on the side of the marker that the soc flag asks for.
OnRequestedSide(n) == IF soc THEN MarkerBy(n) ELSE ~MarkerBy(n)

\* C7: in both scans the inside-SOC-section flag starts false, is true from
\* the first line that holds the SOC start marker and is never reset; a
\* value comes only from a line with its marker at which the flag agrees
\* with the soc request, so a non-SOC read never returns a value from a
\* line at or after the SOC marker and a SOC read never one from before it.
C7_SocSection ==
    /\ in_soc_section = MarkerBy(line_idx)
    /\ fermi_energy # None
          => /\ fermi_energy[1] \in 1..line_idx
             /\ OnRequestedSide(fermi_energy[1])
             /\ \/ log_lines[fermi_energy[1]].fermi
                \/ ~soc /\ log_lines[fermi_energy[1]].md
    /\ vbm # None
          => /\ vbm[1] \in 1..line_idx
             /\ OnRequestedSide(vbm[1])
             /\ log_lines[vbm[1]].vbm
    /\ cbm # None
          => /\ cbm[1] \in 1..line_idx
             /\ OnRequestedSide(cbm[1])
             /\ log_lines[cbm[1]].cbm

\* A SOC read that took its Fermi energy from a line after the marker and
\* left alone a well-formed Fermi line before the marker.
C7_Witness ==
    /\ entry = "main"
    /\ pc = "done"
    /\ soc
    /\ fermi_energy # None
    /\ \E j \in 1..Len(log_lines) :
          /\ log_lines[j] = L_fermi
          /\ ~MarkerBy(j)
          /\ j < fermi_energy[1]

\* read_fermi_energy has returned to main.
FermiReturned ==
    /\ entry = "main"
    /\ pc \in {"save_bands", "done"}
    /\ homo_idx >= 0
    /\ lumo_idx >= 0

VbmReturned == entry = "read_vbm_cbm_from_output" /\ pc = "returned"

\* The lines on the requested side of the marker that hold a Fermi marker
\* the scan looks at.
FermiLines ==
    {n \in 1..Len(log_lines) :
        /\ OnRequestedSide(n)
        /\ log_lines[n].fermi \/ (~soc /\ log_lines[n].md)}

\* Likewise for the VBM and CBM markers.
VbmLines == {n \in 1..Len(log_lines) : OnRequestedSide(n) /\ log_lines[n].vbm}
CbmLines == {n \in 1..Len(log_lines) : OnRequestedSide(n) /\ log_lines[n].cbm}

ReadersNeverRaise ==
    /\ raised # Some("read_fermi_energy")
    /\ raised # Some("read_vbm_cbm_from_output")

\* main wrote both band grids, from the eigenvalue columns as parsed.
BandGridsUnreferenced ==
    /\ Written("BAND_HOMO.grd")
    /\ Written("BAND_LUMO.grd")
    /\ grid_files["BAND_HOMO.grd"] =
           [k \in 1..Len(eigenvalues) |-> eigenvalues[k][homo_idx + 1]]
    /\ grid_files["BAND_LUMO.grd"] =
           [k \in 1..Len(eigenvalues) |-> eigenvalues[k][lumo_idx + 1]]

\* C8, as stated: the readers never raise; they return None when there is
\* no log file to open, when a matching line is malformed, and when no
\* marker line appears; and main then still writes both band grids.
C8_NoneWhenMalformed ==
    /\ ReadersNeverRaise
    /\ FermiReturned
          => /\ (\/ output_file \notin cwd /\ fallback_files(cwd) = {}
                 \/ \E n \in FermiLines : log_lines[n].num # "ok"
                 \/ FermiLines = {})
                    => fermi_energy = None
             /\ pc = "done" => BandGridsUnreferenced
    /\ VbmReturned
          => /\ (\/ output_file \notin cwd
                 \/ \E n \in VbmLines \cup CbmLines : log_lines[n].num # "ok")
                    => vbm = None /\ cbm = None
             /\ VbmLines = {} => vbm = None
             /\ CbmLines = {} => cbm = None

\* C8, amended: the readers never raise.  read_fermi_energy returns None
\* when neither the named log nor a fallback '*.out' file is there to open,
\* and when no marker line on the requested side of the SOC marker holds a
\* well-formed number; a marker line without a number is skipped, so another
\* marker line can still give the value.  read_vbm_cbm_from_output returns
\* (None, None) when the named log is missing or a VBM/CBM line on the
\* requested side is malformed, and None for a value whose marker is on no
\* such line.  main then still writes both band grids, unreferenced.
C8_NeverRaise ==
    /\ ReadersNeverRaise
    /\ FermiReturned
          => /\ (output_file \notin cwd /\ fallback_files(cwd) = {})
                    => fermi_energy = None
             /\ (\A n \in FermiLines : log_lines[n].num # "ok")
                    => fermi_energy = None
             /\ pc = "done" => BandGridsUnreferenced
    /\ VbmReturned
          => /\ (\/ output_file \notin cwd
                 \/ \E n \in VbmLines \cup CbmLines : log_lines[n].num # "ok")
                    => vbm = None /\ cbm = None
             /\ VbmLines = {} => vbm = None
             /\ CbmLines = {} => cbm = None

\* main finished with both band grids written after read_fermi_energy
\* returned None from its handler: the scan stopped at a Fermi line whose
\* number float() rejects, having taken a value before it.
C8_Witness ==
    /\ entry = "main"
    /\ pc = "done"
    /\ BandGridsUnreferenced
    /\ opened # None
    /\ fermi_energy = None
    /\ line_idx >= 2
    /\ log_lines[line_idx] = L_fermi_bad
    /\ line_idx \in FermiLines
    /\ \E n \in FermiLines : n < line_idx /\ log_lines[n].num = "ok"

====
